---------------------------- MODULE Spec2Model ----------------------------
(***************************************************************************)
(* gogios bench plotting scripts: plot_readme.py, plot_nrdp.py and         *)
(* plot_results.py.  Each script is a straight-line main(): it loads CSV   *)
(* files, projects columns to float sequences, draws panels on figures of  *)
(* the process-wide pyplot engine and saves one PNG per chart group.       *)
(*                                                                         *)
(* A CSV file is held as csv.reader sees it: a sequence of lines, a line a *)
(* sequence of fields, a field a sequence of one-character strings.        *)
(***************************************************************************)
EXTENDS Integers, Sequences, FiniteSets

\* Largest number of data rows of an input file.
MaxRows == 2

---------------------------------------------------------------------------
(* Sequence helpers *)

Range(s) == {s[i] : i \in DOMAIN s}

SetMin(S) == CHOOSE m \in S : \A k \in S : m <= k

SetMax(S) == CHOOSE m \in S : \A k \in S : m >= k

RemoveAt(s, j) == SubSeq(s, 1, j - 1) \o SubSeq(s, j + 1, Len(s))

InsertAt(s, j, e) == SubSeq(s, 1, j - 1) \o <<e>> \o SubSeq(s, j, Len(s))

---------------------------------------------------------------------------
(* float(): Python's conversion of a CSV field to a number.  The fields of *)
(* the model are written over digits, the space and the letter x, on which *)
(* float() strips surrounding whitespace and accepts a non-empty run of    *)
(* digits.  restval is csv.DictReader's None for a field a short row does  *)
(* not supply; float(None) is a TypeError.                                 *)

restval == <<"None">>

restkey == "None"

Digits == {"0", "1", "2", "3", "4", "5", "6", "7", "8", "9"}

DigitVal(c) ==
    CASE c = "0" -> 0 [] c = "1" -> 1 [] c = "2" -> 2 [] c = "3" -> 3
      [] c = "4" -> 4 [] c = "5" -> 5 [] c = "6" -> 6 [] c = "7" -> 7
      [] c = "8" -> 8 [] c = "9" -> 9

RECURSIVE lstrip(_)
lstrip(s) == IF s # <<>> /\ Head(s) = " " THEN lstrip(Tail(s)) ELSE s

RECURSIVE rstrip(_)
rstrip(s) ==
    IF s # <<>> /\ s[Len(s)] = " " THEN rstrip(SubSeq(s, 1, Len(s) - 1)) ELSE s

strip(s) == rstrip(lstrip(s))

RECURSIVE DecimalValue(_)
DecimalValue(s) ==
    IF s = <<>> THEN 0
    ELSE 10 * DecimalValue(SubSeq(s, 1, Len(s) - 1)) + DigitVal(s[Len(s)])

\* [err |-> "" , val |-> n] or [err |-> the exception's type, val |-> 0]
float(cell) ==
    IF cell = restval THEN [err |-> "TypeError", val |-> 0]
    ELSE LET t == strip(cell) IN
         IF t # <<>> /\ \A i \in DOMAIN t : t[i] \in Digits
         THEN [err |-> "", val |-> DecimalValue(t)]
         ELSE [err |-> "ValueError", val |-> 0]

---------------------------------------------------------------------------
(* csv.DictReader as read_csv uses it: the first line gives the field      *)
(* names, blank lines after it are skipped, a short row is padded with     *)
(* restval and the surplus of a long row is kept under restkey.            *)

DictRow(fieldnames, row) ==
    LET lf == Len(fieldnames)
        lr == Len(row)
        keys == Range(fieldnames) \cup (IF lf < lr THEN {restkey} ELSE {})
    IN [k \in keys |->
          IF k = restkey /\ lf < lr /\ restkey \notin Range(fieldnames)
          THEN SubSeq(row, lf + 1, lr)
          ELSE LET js == {j \in 1..lf : fieldnames[j] = k} IN
               IF \E j \in js : j > lr THEN restval ELSE row[SetMax(js)]]

\* Faulty variant: blank lines kept as rows.
DictReaderMutKeepBlank(lines) ==
    IF lines = <<>> THEN <<>>
    ELSE [i \in 1..(Len(lines) - 1) |-> DictRow(lines[1], lines[i + 1])]

DictReader(lines) ==
    IF lines = <<>> THEN <<>>
    ELSE LET fieldnames == lines[1]
             rows == SelectSeq(Tail(lines), LAMBDA l : l # <<>>)
         IN [i \in 1..Len(rows) |-> DictRow(fieldnames, rows[i])]

\* open(path) then list(csv.DictReader(f)).  [err, rows]
read_csv(fsys, path) ==
    IF ~fsys[path].exists THEN [err |-> "FileNotFoundError", rows |-> <<>>]
    ELSE [err |-> "", rows |-> DictReader(fsys[path].lines)]

\* r[key] then float(): the first exception of one element of the
\* comprehension.
Element(r, key) ==
    IF key \notin DOMAIN r THEN [err |-> "KeyError", val |-> 0] ELSE float(r[key])

\* Faulty variant: rows that do not convert are dropped.
parseMutSkipBad(rows, key) ==
    LET ok == SelectSeq(rows, LAMBDA r : Element(r, key).err = "") IN
    [err |-> "", val |-> [i \in DOMAIN ok |-> Element(ok[i], key).val]]

\* [float(r[key]) for r in rows]: the elements in order, or the exception of
\* the first row that raises.  [err, val]
parse(rows, key) ==
    LET bad == {i \in DOMAIN rows : Element(rows[i], key).err # ""} IN
    IF bad = {} THEN [err |-> "", val |-> [i \in DOMAIN rows |-> Element(rows[i], key).val]]
    ELSE [err |-> Element(rows[SetMin(bad)], key).err, val |-> <<>>]

\* [float(r["mem_rss_kb"])/1024 for r in rows]: a quotient is kept as the
\* pair <<dividend, divisor>>.
mem_mb(rows) ==
    LET key == "mem_rss_kb"
        bad == {i \in DOMAIN rows : Element(rows[i], key).err # ""}
    IN IF bad = {}
       THEN [err |-> "",
             val |-> [i \in DOMAIN rows |-> <<Element(rows[i], key).val, 1024>>]]
       ELSE [err |-> Element(rows[SetMin(bad)], key).err, val |-> <<>>]

---------------------------------------------------------------------------
(* The input files.  A well-formed file has the header the benchmark       *)
(* harness writes and up to MaxRows rows of distinct numbers; the other    *)
(* files differ from a well-formed one in one place.                       *)

ScaleHeader ==
    <<"services", "checks_per_sec", "mem_rss_kb", "startup_ms",
      "lql_hosts_rps", "lql_services_rps", "lql_stats_rps",
      "lql_hosts_p95_ms", "lql_services_p95_ms">>

NrdpHeader == <<"unique_services", "results_per_sec", "p95_batch_ms", "mem_rss_kb">>

DigitStr(n) ==
    CASE n = 0 -> "0" [] n = 1 -> "1" [] n = 2 -> "2" [] n = 3 -> "3"
      [] n = 4 -> "4" [] n = 5 -> "5" [] n = 6 -> "6" [] n = 7 -> "7"
      [] n = 8 -> "8" [] n = 9 -> "9"

\* The field of row i, column j: the numeral of 10 * i + j.
Cell(i, j) == <<DigitStr(i), DigitStr(j)>>

GoodLines(h, n) == <<h>> \o [i \in 1..n |-> [j \in 1..Len(h) |-> Cell(i, j)]]

\* Fields that replace a numeral: not a number, empty, a number in blanks,
\* two numbers.
OddCells == {<<"x">>, <<>>, <<" ", "7">>, <<"1", " ", "2">>}

File(ls) == [exists |-> TRUE, lines |-> ls]

Missing == [exists |-> FALSE, lines |-> <<>>]

GoodFiles(h) == {File(GoodLines(h, n)) : n \in 0..MaxRows}

OddFiles(h) ==
    {Missing, File(<<>>)}
    \cup UNION {
        LET g == GoodLines(h, n) IN
        \* a column absent from the header and from every row
        {File([l \in 1..(n + 1) |-> RemoveAt(g[l], j)]) : j \in 1..Len(h)}
        \* a blank line among or after the rows
        \cup {File(InsertAt(g, l, <<>>)) : l \in 2..(n + 2)}
        \* one odd field
        \cup {File([g EXCEPT ![i + 1][j] = c]) :
                 i \in 1..n, j \in 1..Len(h), c \in OddCells}
        \* one short row
        \cup {File([g EXCEPT ![i + 1] = SubSeq(@, 1, k)]) :
                 i \in 1..n, k \in 1..(Len(h) - 1)}
        \* one long row
        \cup {File([g EXCEPT ![i + 1] = Append(@, <<"9">>)]) : i \in 1..n}
      : n \in 0..MaxRows}

---------------------------------------------------------------------------
(* The three scripts as instruction sequences.  Every instruction carries  *)
(* g, the chart group its statement belongs to (0 before the first group). *)
(* fv names the script variable holding the figure (fig, fig2); ax is the  *)
(* position of the panel among the figure's axes.  tight_layout only moves *)
(* the panels and is left out.                                             *)

Scripts == {"readme", "nrdp", "results"}

\* os.path.join on two relative POSIX paths
join(a, b) == a \o "/" \o b

read_csvI(d, path) == [op |-> "read_csv", g |-> 0, d |-> d, path |-> path]

makedirsI(out) == [op |-> "makedirs", g |-> 0, dir |-> out]

svcsI(d, key) == [op |-> "svcs", g |-> 0, d |-> d, col |-> key]

subplotsI(g, fv, n) == [op |-> "subplots", g |-> g, fv |-> fv, n |-> n]

suptitleI(g, fv, color) == [op |-> "suptitle", g |-> g, fv |-> fv, color |-> color]

style_axI(g, fv, ax) == [op |-> "style_ax", g |-> g, fv |-> fv, ax |-> ax]

plotI(g, fv, ax, xd, d, key, fmt, color, label) ==
    [op |-> "plot", g |-> g, fv |-> fv, ax |-> ax, xd |-> xd, d |-> d,
     col |-> key, fmt |-> fmt, color |-> color, label |-> label]

memI(g, d) == [op |-> "mem", g |-> g, d |-> d]

plot_memI(g, fv, ax, xd, d, fmt, color, label) ==
    [op |-> "plot_mem", g |-> g, fv |-> fv, ax |-> ax, xd |-> xd, d |-> d,
     col |-> "mem_rss_kb", fmt |-> fmt, color |-> color, label |-> label]

axhlineI(g, fv, ax, y) == [op |-> "axhline", g |-> g, fv |-> fv, ax |-> ax, y |-> y]

set_xscaleI(g, fv, ax) == [op |-> "set_xscale", g |-> g, fv |-> fv, ax |-> ax]

set_yscaleI(g, fv, ax) == [op |-> "set_yscale", g |-> g, fv |-> fv, ax |-> ax]

\* set_title, set_xlabel, set_ylabel and legend
labelsI(g, fv, ax, title) ==
    [op |-> "labels", g |-> g, fv |-> fv, ax |-> ax, title |-> title]

gridI(g, fv, ax) == [op |-> "grid", g |-> g, fv |-> fv, ax |-> ax]

set_major_formatterI(g, fv, ax) ==
    [op |-> "set_major_formatter", g |-> g, fv |-> fv, ax |-> ax]

printI(g, text) == [op |-> "print", g |-> g, text |-> text]

\* Faulty variant: the formatter set before the scale, which replaces it.
PanelTailMutFormatterFirst(g, fv, ax, title, logy) ==
    <<set_major_formatterI(g, fv, ax), set_xscaleI(g, fv, ax)>>
    \o (IF logy THEN <<set_yscaleI(g, fv, ax)>> ELSE <<>>)
    \o <<labelsI(g, fv, ax, title)>>

\* The tail every panel of plot_readme and plot_nrdp ends with.
PanelTail(g, fv, ax, title, logy) ==
    <<set_xscaleI(g, fv, ax)>>
    \o (IF logy THEN <<set_yscaleI(g, fv, ax)>> ELSE <<>>)
    \o <<labelsI(g, fv, ax, title), set_major_formatterI(g, fv, ax)>>

\* Faulty variant: the path reported before the image is written.
saveMutPrintFirst(g, fv, dir, name) ==
    <<[op |-> "patch", g |-> g, fv |-> fv],
      printI(g, "  Saved " \o join(dir, name)),
      [op |-> "savefig", g |-> g, fv |-> fv, dir |-> dir, path |-> join(dir, name)],
      [op |-> "close", g |-> g, fv |-> fv]>>

\* save(fig, path) of plot_readme and plot_nrdp, statement by statement
save(g, fv, dir, name) ==
    <<[op |-> "patch", g |-> g, fv |-> fv],
      [op |-> "savefig", g |-> g, fv |-> fv, dir |-> dir, path |-> join(dir, name)],
      [op |-> "close", g |-> g, fv |-> fv],
      printI(g, "  Saved " \o join(dir, name))>>

---------------------------------------------------------------------------
(* plot_readme.py *)

ReadmeOut == "assets/readme"

colors == [v3 |-> "#d62728", v4 |-> "#2ca02c"]

\* Faulty variant: both lines drawn against the x series of v3.
ReadmeCompareMutSharedX(g, ax, key, before, after) ==
    <<plotI(g, "fig", ax, "v3", "v3", key, "o-", colors.v3, before),
      plotI(g, "fig", ax, "v3", "v4", key, "s-", colors.v4, after)>>

\* The two ax.plot calls of a panel: before (v3) and after (v4).
ReadmeCompare(g, ax, key, before, after) ==
    <<plotI(g, "fig", ax, "v3", "v3", key, "o-", colors.v3, before),
      plotI(g, "fig", ax, "v4", "v4", key, "s-", colors.v4, after)>>

\* Faulty variant: styles taken by panel position, not by dataset.
ReadmeLoopPanelMutCycled(g, ax, key, title) ==
    <<style_axI(g, "fig", ax),
      plotI(g, "fig", ax, "v3", "v3", key, (IF ax = 2 THEN "s-" ELSE "o-"),
            (IF ax = 2 THEN colors.v4 ELSE colors.v3), "Before"),
      plotI(g, "fig", ax, "v4", "v4", key, (IF ax = 2 THEN "o-" ELSE "s-"),
            (IF ax = 2 THEN colors.v3 ELSE colors.v4), "After")>>
    \o PanelTail(g, "fig", ax, title, TRUE)

\* One pass of the loops over (ax, (key, title)).
ReadmeLoopPanel(g, ax, key, title) ==
    <<style_axI(g, "fig", ax)>>
    \o ReadmeCompare(g, ax, key, "Before", "After")
    \o PanelTail(g, "fig", ax, title, TRUE)

ReadmeProgram ==
    <<read_csvI("v3", "bench/scale_results_v3.csv"),
      read_csvI("v4", "bench/scale_results_v4.csv"),
      makedirsI(ReadmeOut),
      svcsI("v3", "services"),
      svcsI("v4", "services")>>
    \* 1. Check throughput
    \o <<subplotsI(1, "fig", 1), style_axI(1, "fig", 1)>>
    \o ReadmeCompare(1, 1, "checks_per_sec",
                     "Before (fork per check)", "After (fork server)")
    \o <<axhlineI(1, "fig", 1, 1667)>>
    \o PanelTail(1, "fig", 1, "Check Throughput", FALSE)
    \o save(1, "fig", ReadmeOut, "check_throughput.png")
    \* 2. Memory usage
    \o <<subplotsI(2, "fig", 1), style_axI(2, "fig", 1), memI(2, "v3"), memI(2, "v4"),
         plot_memI(2, "fig", 1, "v3", "v3", "o-", colors.v3, "Before"),
         plot_memI(2, "fig", 1, "v4", "v4", "s-", colors.v4, "After")>>
    \o PanelTail(2, "fig", 1, "Memory Usage (RSS)", FALSE)
    \o save(2, "fig", ReadmeOut, "memory_usage.png")
    \* 3. Startup time
    \o <<subplotsI(3, "fig", 1), style_axI(3, "fig", 1)>>
    \o ReadmeCompare(3, 1, "startup_ms", "Before", "After")
    \o PanelTail(3, "fig", 1, "Startup Time", FALSE)
    \o save(3, "fig", ReadmeOut, "startup_time.png")
    \* 4. LQL throughput (3-panel)
    \o <<subplotsI(4, "fig", 3), suptitleI(4, "fig", "#24292e")>>
    \o ReadmeLoopPanel(4, 1, "lql_hosts_rps", "Hosts Query")
    \o ReadmeLoopPanel(4, 2, "lql_services_rps", "Services Query")
    \o ReadmeLoopPanel(4, 3, "lql_stats_rps", "Stats Query")
    \o save(4, "fig", ReadmeOut, "lql_throughput.png")
    \* 5. LQL latency (2-panel)
    \o <<subplotsI(5, "fig", 2), suptitleI(5, "fig", "#24292e")>>
    \o ReadmeLoopPanel(5, 1, "lql_hosts_p95_ms", "Hosts Query")
    \o ReadmeLoopPanel(5, 2, "lql_services_p95_ms", "Services Query")
    \o save(5, "fig", ReadmeOut, "lql_latency.png")
    \o <<printI(0, "\nDone! All graphs in assets/readme/")>>

---------------------------------------------------------------------------
(* plot_nrdp.py *)

NrdpOut == "assets/readme"

color == "#0366d6"

\* Faulty variant: the image saved before the series is drawn.
NrdpChartMutSaveFirst(g, key, c, label, title, name) ==
    <<subplotsI(g, "fig", 1), style_axI(g, "fig", 1)>>
    \o save(g, "fig", NrdpOut, name)
    \o <<plotI(g, "fig", 1, "data", "data", key, "s-", c, label)>>
    \o PanelTail(g, "fig", 1, title, FALSE)

\* One single-panel chart of a column of data.
NrdpChart(g, key, c, label, title, name) ==
    <<subplotsI(g, "fig", 1), style_axI(g, "fig", 1),
      plotI(g, "fig", 1, "data", "data", key, "s-", c, label)>>
    \o PanelTail(g, "fig", 1, title, FALSE)
    \o save(g, "fig", NrdpOut, name)

NrdpProgram ==
    <<read_csvI("data", "bench/nrdp_results.csv"),
      makedirsI(NrdpOut),
      svcsI("data", "unique_services")>>
    \* 1. NRDP Ingestion Throughput
    \o NrdpChart(1, "results_per_sec", color, "NRDP ingestion rate",
                 "NRDP Passive Check Ingestion Throughput", "nrdp_throughput.png")
    \* 2. NRDP P95 Batch Latency
    \o NrdpChart(2, "p95_batch_ms", "#d62728", "P95 batch latency",
                 "NRDP P95 Batch Latency", "nrdp_latency.png")
    \* 3. Memory after NRDP ingestion
    \o <<subplotsI(3, "fig", 1), style_axI(3, "fig", 1), memI(3, "data"),
         plot_memI(3, "fig", 1, "data", "data", "s-", "#2ca02c", "RSS after ingestion")>>
    \o PanelTail(3, "fig", 1, "Memory After NRDP Dynamic Registration", FALSE)
    \o save(3, "fig", NrdpOut, "nrdp_memory.png")
    \o <<printI(0, "\nDone! NRDP graphs in assets/readme/")>>

---------------------------------------------------------------------------
(* plot_results.py *)

out_dir == "bench/graphs"

\* The statements of a panel after its ax.plot calls.
ResultsPanelTail(g, fv, ax, title, logy) ==
    <<set_xscaleI(g, fv, ax)>>
    \o (IF logy THEN <<set_yscaleI(g, fv, ax)>> ELSE <<>>)
    \o <<labelsI(g, fv, ax, title), gridI(g, fv, ax), set_major_formatterI(g, fv, ax)>>

ResultsPanel(g, fv, ax, key, title, logy) ==
    <<plotI(g, fv, ax, "v2", "v2", key, "o-", "#d62728", "v2"),
      plotI(g, fv, ax, "v3", "v3", key, "s-", "#2ca02c", "v3")>>
    \o ResultsPanelTail(g, fv, ax, title, logy)

\* plt.savefig(os.path.join(out_dir, name)) and the print after it
ResultsEmit(g, name) ==
    <<[op |-> "plt_savefig", g |-> g, dir |-> out_dir, path |-> join(out_dir, name)],
      printI(g, "Saved " \o out_dir \o "/" \o name)>>

ResultsProgram ==
    <<makedirsI(out_dir),
      read_csvI("v2", "bench/scale_results_v2.csv"),
      read_csvI("v3", "bench/scale_results_v3.csv"),
      svcsI("v2", "services"),
      svcsI("v3", "services"),
      subplotsI(1, "fig", 6), suptitleI(1, "fig", "black")>>
    \o ResultsPanel(1, "fig", 1, "checks_per_sec", "Check Throughput", FALSE)
    \o <<memI(1, "v2"), memI(1, "v3"),
         plot_memI(1, "fig", 2, "v2", "v2", "o-", "#d62728", "v2"),
         plot_memI(1, "fig", 2, "v3", "v3", "s-", "#2ca02c", "v3")>>
    \o ResultsPanelTail(1, "fig", 2, "Memory Usage (RSS)", FALSE)
    \o ResultsPanel(1, "fig", 3, "startup_ms", "Startup Time", FALSE)
    \o ResultsPanel(1, "fig", 4, "lql_services_rps", "LQL Services Query RPS", TRUE)
    \o ResultsPanel(1, "fig", 5, "lql_hosts_rps", "LQL Hosts Query RPS", TRUE)
    \o ResultsPanel(1, "fig", 6, "lql_stats_rps", "LQL Stats Query RPS", TRUE)
    \o ResultsEmit(1, "scale_comparison.png")
    \* Second figure: latency
    \o <<subplotsI(2, "fig2", 2), suptitleI(2, "fig2", "black")>>
    \o ResultsPanel(2, "fig2", 1, "lql_hosts_p95_ms", "Hosts Query P95 Latency", TRUE)
    \o ResultsPanel(2, "fig2", 2, "lql_services_p95_ms", "Services Query P95 Latency", TRUE)
    \o ResultsEmit(2, "latency_comparison.png")

Program(s) ==
    CASE s = "readme" -> ReadmeProgram
      [] s = "nrdp" -> NrdpProgram
      [] s = "results" -> ResultsProgram

DataVars(s) ==
    CASE s = "readme" -> {"v3", "v4"}
      [] s = "nrdp" -> {"data"}
      [] s = "results" -> {"v2", "v3"}

Header(s) == IF s = "nrdp" THEN NrdpHeader ELSE ScaleHeader

\* The path read into each dataset variable.
PathOf(s, d) ==
    LET P == Program(s) IN
    P[CHOOSE i \in DOMAIN P : P[i].op = "read_csv" /\ P[i].d = d].path

---------------------------------------------------------------------------
(* State *)

VARIABLES
    script,   \* the script whose main() runs
    fs,       \* the input files, by path
    pc,       \* position in Program(script)
    err,      \* "" or the exception that ended main()
    data,     \* the datasets read, by script variable (v2, v3, v4, data)
    svcs,     \* the x series projected from each dataset
    mem,      \* the mem_rss_kb / 1024 series of each dataset
    figvar,   \* the figure each script variable (fig, fig2) holds
    figs,     \* every figure created, in creation order
    open,     \* pyplot's open figures, the current one last
    dirs,     \* directories made by this run
    files,    \* images written by this run: [path, fig, image]
    console,  \* lines printed
    proj      \* every column projection evaluated: [fn, g, d, key, err, val]

vars == <<script, fs, pc, err, data, svcs, mem, figvar, figs, open, dirs,
          files, console, proj>>

Prog == Program(script)

Running == err = "" /\ pc <= Len(Prog)

Done == err = "" /\ pc > Len(Prog)

Failed == err # ""

\* One odd file at most among the files a script reads.
FileSystems(s) ==
    LET paths == {PathOf(s, d) : d \in DataVars(s)}
        good == GoodFiles(Header(s))
        all == good \cup OddFiles(Header(s))
    IN {f \in [paths -> all] : Cardinality({p \in paths : f[p] \notin good}) <= 1}

Init ==
    /\ script \in Scripts
    /\ fs \in FileSystems(script)
    /\ pc = 1
    /\ err = ""
    /\ data = [d \in DataVars(script) |-> <<>>]
    /\ svcs = [d \in DataVars(script) |-> <<>>]
    /\ mem = [d \in DataVars(script) |-> <<>>]
    /\ figvar = [v \in {"fig", "fig2"} |-> 0]
    /\ figs = <<>>
    /\ open = <<>>
    /\ dirs = {}
    /\ files = {}
    /\ console = <<>>
    /\ proj = <<>>

---------------------------------------------------------------------------
(* The rendering engine: matplotlib's defaults and the effect of each call *)

DefaultAxes ==
    [face |-> <<"white", 100>>, spine |-> "black", tick |-> "black",
     label |-> "black", titlecolor |-> "black",
     grid |-> [on |-> FALSE, alpha |-> 100, color |-> "#b0b0b0"],
     xscale |-> "linear", yscale |-> "linear", xfmt |-> "ScalarFormatter",
     title |-> "", lines |-> <<>>, hlines |-> <<>>]

NewFigure(g, n) ==
    [g |-> g, axes |-> [i \in 1..n |-> DefaultAxes], patch |-> <<"white", 100>>,
     suptitle |-> "black"]

\* style_ax(ax)
style_ax(a) ==
    [a EXCEPT !.face = <<"white", 85>>, !.spine = "#586069", !.tick = "#24292e",
              !.label = "#24292e", !.titlecolor = "#24292e",
              !.grid = [on |-> TRUE, alpha |-> 25, color |-> "#586069"]]

\* ax.set_xscale('log'): the scale installs its own tick formatter.
set_xscale(a) == [a EXCEPT !.xscale = "log", !.xfmt = "LogFormatterSciNotation"]

\* ax.set_yscale('log')
set_yscale(a) == [a EXCEPT !.yscale = "log"]

\* ax.grid(True, alpha=0.3)
grid(a) == [a EXCEPT !.grid.on = TRUE, !.grid.alpha = 30]

\* ax.xaxis.set_major_formatter(FuncFormatter(lambda x, _: f'{x:,.0f}'))
set_major_formatter(a) == [a EXCEPT !.xfmt = "thousands"]

\* Faulty variant: the figure opened first.
gcfMutOldest(o) == o[1]

\* plt.gcf() of a non-empty engine: the figure activated last
gcf(o) == o[Len(o)]

\* The image a savefig call writes: the figure as it is then.
Written(path, f) ==
    {w \in files : w.path # path} \cup {[path |-> path, fig |-> f, image |-> figs[f]]}

---------------------------------------------------------------------------
(* The statements of main().  A statement that raises sets err and leaves  *)
(* pc at itself: nothing catches the exception and the run is over.        *)

At(op) == Running /\ Prog[pc].op = op

\* Faulty variant: the exception is swallowed and main() goes on.
RaiseMutSwallowed(e) == err' = err /\ pc' = pc + 1

Raise(e) == err' = e /\ pc' = pc

Next1 == err' = err /\ pc' = pc + 1

ReadCsv ==
    /\ At("read_csv")
    /\ LET r == read_csv(fs, Prog[pc].path) IN
       IF r.err # "" THEN Raise(r.err) /\ data' = data
       ELSE Next1 /\ data' = [data EXCEPT ![Prog[pc].d] = r.rows]
    /\ UNCHANGED <<script, fs, svcs, mem, figvar, figs, open, dirs, files, console, proj>>

\* os.makedirs(out, exist_ok=True)
MakeDirs ==
    /\ At("makedirs")
    /\ Next1
    /\ dirs' = dirs \cup {Prog[pc].dir}
    /\ UNCHANGED <<script, fs, data, svcs, mem, figvar, figs, open, files, console, proj>>

Logged(fn, i, key, p) ==
    Append(proj, [fn |-> fn, g |-> i.g, d |-> i.d, key |-> key,
                  err |-> p.err, val |-> p.val])

\* svcs_x = parse(x, "services")
Svcs ==
    /\ At("svcs")
    /\ LET i == Prog[pc]
           p == parse(data[i.d], i.col)
       IN /\ proj' = Logged("parse", i, i.col, p)
          /\ IF p.err # "" THEN Raise(p.err) /\ svcs' = svcs
             ELSE Next1 /\ svcs' = [svcs EXCEPT ![i.d] = p.val]
    /\ UNCHANGED <<script, fs, data, mem, figvar, figs, open, dirs, files, console>>

\* mem_x = [float(r["mem_rss_kb"])/1024 for r in x]
Mem ==
    /\ At("mem")
    /\ LET i == Prog[pc]
           p == mem_mb(data[i.d])
       IN /\ proj' = Logged("mem_mb", i, "mem_rss_kb", p)
          /\ IF p.err # "" THEN Raise(p.err) /\ mem' = mem
             ELSE Next1 /\ mem' = [mem EXCEPT ![i.d] = p.val]
    /\ UNCHANGED <<script, fs, data, svcs, figvar, figs, open, dirs, files, console>>

\* fig, ax(es) = plt.subplots(...): a new figure, made the current one
Subplots ==
    /\ At("subplots")
    /\ Next1
    /\ LET i == Prog[pc] IN
       /\ figs' = Append(figs, NewFigure(i.g, i.n))
       /\ figvar' = [figvar EXCEPT ![i.fv] = Len(figs) + 1]
       /\ open' = Append(open, Len(figs) + 1)
    /\ UNCHANGED <<script, fs, data, svcs, mem, dirs, files, console, proj>>

\* fig.suptitle(..., color=...)
Suptitle ==
    /\ At("suptitle")
    /\ Next1
    /\ figs' = [figs EXCEPT ![figvar[Prog[pc].fv]].suptitle = Prog[pc].color]
    /\ UNCHANGED <<script, fs, data, svcs, mem, figvar, open, dirs, files, console, proj>>

\* A call on the panel an instruction names.
OnAxes(F(_)) ==
    /\ Next1
    /\ figs' = [figs EXCEPT ![figvar[Prog[pc].fv]].axes[Prog[pc].ax] = F(@)]
    /\ UNCHANGED <<script, fs, data, svcs, mem, figvar, open, dirs, files, console, proj>>

StyleAx == At("style_ax") /\ OnAxes(style_ax)

SetXScale == At("set_xscale") /\ OnAxes(set_xscale)

SetYScale == At("set_yscale") /\ OnAxes(set_yscale)

Grid == At("grid") /\ OnAxes(grid)

SetMajorFormatter == At("set_major_formatter") /\ OnAxes(set_major_formatter)

\* set_title, set_xlabel, set_ylabel, legend: texts, no colours
Labels == At("labels") /\ OnAxes(LAMBDA a : [a EXCEPT !.title = Prog[pc].title])

\* ax.axhline(y=1667, color='#0366d6', linestyle='--', ...)
AxHLine ==
    /\ At("axhline")
    /\ OnAxes(LAMBDA a : [a EXCEPT !.hlines = Append(@, [y |-> Prog[pc].y,
                                                          color |-> "#0366d6"])])

\* The line ax.plot(x, y, fmt, color=..., label=...) adds; d, col and g
\* record where y came from.
Line(i, x, y) ==
    [x |-> x, y |-> y, fmt |-> i.fmt, color |-> i.color, label |-> i.label,
     d |-> i.d, col |-> i.col, g |-> i.g]

\* ax.plot raises when x and y differ in length.
Draw(i, x, y) ==
    IF Len(x) # Len(y)
    THEN Raise("ValueError: x and y must have same first dimension") /\ figs' = figs
    ELSE Next1 /\ figs' = [figs EXCEPT ![figvar[i.fv]].axes[i.ax].lines =
                                            Append(@, Line(i, x, y))]

\* ax.plot(svcs_x, parse(x, key), ...)
Plot ==
    /\ At("plot")
    /\ LET i == Prog[pc]
           p == parse(data[i.d], i.col)
       IN /\ proj' = Logged("parse", i, i.col, p)
          /\ IF p.err # "" THEN Raise(p.err) /\ figs' = figs
             ELSE Draw(i, svcs[i.xd], p.val)
    /\ UNCHANGED <<script, fs, data, svcs, mem, figvar, open, dirs, files, console>>

\* ax.plot(svcs_x, mem_x, ...)
PlotMem ==
    /\ At("plot_mem")
    /\ Draw(Prog[pc], svcs[Prog[pc].xd], mem[Prog[pc].d])
    /\ UNCHANGED <<script, fs, data, svcs, mem, figvar, open, dirs, files, console, proj>>

\* fig.patch.set_facecolor((1, 1, 1, 0.85))
Patch ==
    /\ At("patch")
    /\ Next1
    /\ figs' = [figs EXCEPT ![figvar[Prog[pc].fv]].patch = <<"white", 85>>]
    /\ UNCHANGED <<script, fs, data, svcs, mem, figvar, open, dirs, files, console, proj>>

\* Writing f to the path of the instruction; the directory must exist.
Save(f) ==
    IF Prog[pc].dir \notin dirs
    THEN Raise("FileNotFoundError") /\ files' = files
    ELSE Next1 /\ files' = Written(Prog[pc].path, f)

\* fig.savefig(path, dpi=150, bbox_inches='tight', pad_inches=0.2)
SaveFig ==
    /\ At("savefig")
    /\ Save(figvar[Prog[pc].fv])
    /\ UNCHANGED <<script, fs, data, svcs, mem, figvar, figs, open, dirs, console, proj>>

\* plt.savefig(path, dpi=150): the current figure.  The scripts call it
\* with a figure open.
PltSaveFig ==
    /\ At("plt_savefig")
    /\ open # <<>>
    /\ Save(gcf(open))
    /\ UNCHANGED <<script, fs, data, svcs, mem, figvar, figs, open, dirs, console, proj>>

\* plt.close(fig)
Close ==
    /\ At("close")
    /\ Next1
    /\ open' = SelectSeq(open, LAMBDA f : f # figvar[Prog[pc].fv])
    /\ UNCHANGED <<script, fs, data, svcs, mem, figvar, figs, dirs, files, console, proj>>

PrintLine ==
    /\ At("print")
    /\ Next1
    /\ console' = Append(console, Prog[pc].text)
    /\ UNCHANGED <<script, fs, data, svcs, mem, figvar, figs, open, dirs, files, proj>>

Next ==
    \/ ReadCsv \/ MakeDirs \/ Svcs \/ Mem \/ Subplots \/ Suptitle \/ StyleAx
    \/ SetXScale \/ SetYScale \/ Grid \/ SetMajorFormatter \/ Labels \/ AxHLine
    \/ Plot \/ PlotMem \/ Patch \/ SaveFig \/ PltSaveFig \/ Close \/ PrintLine

Spec == Init /\ [][Next]_vars

---------------------------------------------------------------------------
(* Vocabulary of the properties: chart groups and their output paths, and  *)
(* what an input file holds, read off the file itself.                     *)

\* Tables of the three programs, by script and chart group.
GroupsOf == [s \in Scripts |-> {Program(s)[i].g : i \in DOMAIN Program(s)} \ {0}]

SaveOps == {"savefig", "plt_savefig"}

PathTable ==
    [s \in Scripts |-> [g \in GroupsOf[s] |->
        LET P == Program(s) IN
        P[CHOOSE i \in DOMAIN P : P[i].g = g /\ P[i].op \in SaveOps].path]]

ProjectionTable ==
    [s \in Scripts |-> [g \in GroupsOf[s] |->
        LET P == Program(s) IN
        {i \in DOMAIN P : P[i].g \in {0, g} /\ P[i].op \in {"svcs", "mem", "plot"}}]]

PlotCallTable ==
    [s \in Scripts |-> [g \in GroupsOf[s] |->
        LET P == Program(s) IN
        {i \in DOMAIN P : P[i].g = g /\ P[i].op \in {"plot", "plot_mem"}}]]

Groups == GroupsOf[script]

GroupPath(g) == PathTable[script][g]

IsWritten(g) == \E w \in files : w.path = GroupPath(g)

\* The instructions of group g that load or project: the shared preamble
\* (g = 0) and the group's own.
Projections(g) == ProjectionTable[script][g]

PlotCalls(g) == PlotCallTable[script][g]

KeyOf(i) == IF Prog[i].op = "mem" THEN "mem_rss_kb" ELSE Prog[i].col

PathTableOfData == [s \in Scripts |-> [d \in DataVars(s) |-> PathOf(s, d)]]

FileOf(d) == fs[PathTableOfData[script][d]]

HasHeader(f) == f.exists /\ f.lines # <<>>

HeaderOf(f) == IF HasHeader(f) THEN f.lines[1] ELSE <<>>

\* The data rows of a file: its lines after the header, blank lines aside.
DataRows(f) == IF HasHeader(f) THEN SelectSeq(Tail(f.lines), LAMBDA l : l # <<>>) ELSE <<>>

InHeader(f, key) == key \in Range(HeaderOf(f))

ColumnAt(f, key) == CHOOSE j \in DOMAIN HeaderOf(f) : HeaderOf(f)[j] = key

\* A field that reads as a number: one run of digits, blanks around it.
IsNumber(cell) ==
    LET nb == {i \in DOMAIN cell : cell[i] # " "} IN
    /\ nb # {}
    /\ \A i \in SetMin(nb)..SetMax(nb) : cell[i] \in Digits

RECURSIVE Pow10(_)
Pow10(k) == IF k = 0 THEN 1 ELSE 10 * Pow10(k - 1)

RECURSIVE SumOver(_, _)
SumOver(S, cell) ==
    IF S = {} THEN 0
    ELSE LET i == SetMax(S) IN
         DigitVal(cell[i]) * Pow10(Cardinality({k \in DOMAIN cell : k > i /\ cell[k] # " "}))
         + SumOver(S \ {i}, cell)

NumberOf(cell) == SumOver({i \in DOMAIN cell : cell[i] # " "}, cell)

\* Row i of f gives no number for key: the column is not in the header,
\* the row is too short to reach it, or the field is not a number.
NoNumber(f, key, i) ==
    \/ ~InHeader(f, key)
    \/ ColumnAt(f, key) > Len(DataRows(f)[i])
    \/ ~IsNumber(DataRows(f)[i][ColumnAt(f, key)])

Last(s) == s[Len(s)]

---------------------------------------------------------------------------
(* C1: all-or-nothing per chart group.  When the image of a chart group    *)
(* has been written, every projection the group needs (the x series and    *)
(* its own columns) was evaluated without an exception and every plot call *)
(* of the group has put its line on the written image; and when a          *)
(* projection a group needs has raised, there is no image at the group's   *)
(* path.                                                                   *)
C1_AllOrNothing ==
    \A g \in Groups :
        /\ IsWritten(g) =>
              /\ \A i \in Projections(g) :
                    \E k \in DOMAIN proj :
                        /\ proj[k].g = Prog[i].g /\ proj[k].d = Prog[i].d
                        /\ proj[k].key = KeyOf(i) /\ proj[k].err = ""
              /\ \A i \in PlotCalls(g) :
                    \A w \in files :
                        w.path = GroupPath(g) =>
                          \E l \in Range(w.image.axes[Prog[i].ax].lines) :
                              l.g = g /\ l.d = Prog[i].d /\ l.col = Prog[i].col
        /\ (\E k \in DOMAIN proj : proj[k].err # "" /\ proj[k].g \in {0, g}) => ~IsWritten(g)
        /\ (Failed /\ Prog[pc].g \in {0, g}) => ~IsWritten(g)

\* A run that failed in its second group: the first image is there, the
\* second is not.
C1_Witness ==
    /\ Failed /\ Prog[pc].g = 2 /\ Prog[pc].op = "plot"
    /\ IsWritten(1) /\ ~IsWritten(2)

---------------------------------------------------------------------------
(* C2 as stated: whenever a column is projected whose header lacks it, or  *)
(* one of whose rows has no number for it, the projection raises and       *)
(* yields no sequence, and no image of the requesting group is written.    *)
C2_AsStated ==
    proj # <<>> =>
        LET e == Last(proj)
            f == FileOf(e.d)
        IN (HasHeader(f) /\
            (~InHeader(f, e.key) \/ \E i \in DOMAIN DataRows(f) : NoNumber(f, e.key, i)))
           => /\ e.err # "" /\ e.val = <<>>
              /\ \A g \in Groups : e.g \in {0, g} => ~IsWritten(g)

(* C2 amended: whenever a column is projected and some data row has no     *)
(* number for it (every row, when the header lacks the column), the        *)
(* projection raises and yields no sequence, the run ends there, and no    *)
(* image of the requesting group (of any group, for the x series) is       *)
(* written.  A dataset without rows projects to the empty sequence         *)
(* whatever the column.  (proj grows by one entry per projection, so the   *)
(* latest entry of every state covers every projection of every run.)      *)
C2_FailsAsAWhole ==
    proj # <<>> =>
        LET e == Last(proj)
            f == FileOf(e.d)
        IN /\ (\E i \in DOMAIN DataRows(f) : NoNumber(f, e.key, i)) =>
                /\ e.err \in {"KeyError", "ValueError", "TypeError"}
                /\ e.val = <<>>
                /\ Failed /\ err = e.err
                /\ \A g \in Groups : e.g \in {0, g} => ~IsWritten(g)
           /\ DataRows(f) = <<>> => e.err = "" /\ e.val = <<>>

\* A projection raised on the second of two rows, the first being fine.
C2_Witness ==
    /\ Failed /\ proj # <<>>
    /\ Last(proj).err = "ValueError"
    /\ Len(DataRows(FileOf(Last(proj).d))) = 2
    /\ ~NoNumber(FileOf(Last(proj).d), Last(proj).key, 1)
    /\ NoNumber(FileOf(Last(proj).d), Last(proj).key, 2)

---------------------------------------------------------------------------
(* C3: for a file with N data rows whose header has column c and whose     *)
(* fields for c are all numbers, parse(read_csv(path), c) is the sequence  *)
(* of N values, the i-th the number of the i-th data row's field for c.    *)
(* (Stated of the latest projection of every state.)                       *)
C3_ProjectionInFileOrder ==
    proj # <<>> =>
        LET e == Last(proj)
            f == FileOf(e.d)
            rows == DataRows(f)
        IN (e.fn = "parse" /\ InHeader(f, e.key)
            /\ \A i \in DOMAIN rows : ~NoNumber(f, e.key, i))
           => /\ e.err = ""
              /\ Len(e.val) = Len(rows)
              /\ \A i \in DOMAIN rows : e.val[i] = NumberOf(rows[i][ColumnAt(f, e.key)])

\* A projection of two rows with a blank line between them in the file.
C3_Witness ==
    /\ proj # <<>> /\ Last(proj).fn = "parse" /\ Last(proj).err = ""
    /\ Len(Last(proj).val) = 2
    /\ Last(proj).val[1] < Last(proj).val[2]
    /\ FileOf(Last(proj).d).lines[3] = <<>>

---------------------------------------------------------------------------
\* The run ended on a request for a column the file's header lacks.
AbsentColumnRaised ==
    /\ Failed /\ proj # <<>>
    /\ Last(proj).err = "KeyError"
    /\ HasHeader(FileOf(Last(proj).d))
    /\ ~InHeader(FileOf(Last(proj).d), Last(proj).key)

(* C4 as stated: when a request for a column absent from the header        *)
(* raises, the run has written no image at all.                            *)
C4_AsStated == AbsentColumnRaised => files = {}

(* C4 amended: when a request for a column absent from the header raises   *)
(* (it does when the dataset has a row), no image of the chart group that  *)
(* made the request, nor of a later group, has been written; the images of *)
(* the groups before it have been.  A request of the x column, made before *)
(* the first group, leaves no image at all.                                *)
C4_NoImageOfRequestingGroup ==
    AbsentColumnRaised =>
        \A g \in Groups : IsWritten(g) <=> (Prog[pc].g # 0 /\ g < Prog[pc].g)

\* plot_results fails on a latency column after scale_comparison.png is
\* written.
C4_Witness ==
    /\ AbsentColumnRaised /\ script = "results"
    /\ Prog[pc].g = 2 /\ IsWritten(1) /\ ~IsWritten(2)

---------------------------------------------------------------------------
AllLines == UNION {UNION {Range(figs[f].axes[a].lines) : a \in DOMAIN figs[f].axes}
                   : f \in DOMAIN figs}

(* C5: every line drawn has an x series and a y series of one length, the  *)
(* row count of the dataset both come from, and no ax.plot call raises for *)
(* differing lengths, whatever the row counts of the input files.          *)
C5_SeriesAligned ==
    /\ \A l \in AllLines :
          Len(l.x) = Len(l.y) /\ Len(l.y) = Len(DataRows(FileOf(l.d)))
    /\ Failed => Prog[pc].op \notin {"plot_mem"}
    /\ Failed /\ Prog[pc].op = "plot" => Last(proj).g = Prog[pc].g /\ Last(proj).err = err

\* One panel comparing a dataset of one row with a dataset of two.
C5_Witness ==
    \E f \in DOMAIN figs : \E a \in DOMAIN figs[f].axes :
        LET ls == figs[f].axes[a].lines IN
        Len(ls) = 2 /\ Len(ls[1].x) = 1 /\ Len(ls[2].x) = 2

---------------------------------------------------------------------------
Themed(a) ==
    /\ a.face = <<"white", 85>>
    /\ a.label = "#24292e" /\ a.tick = "#24292e" /\ a.titlecolor = "#24292e"
    /\ a.spine = "#586069"
    /\ a.grid.on /\ a.grid.color = "#586069" /\ a.grid.alpha < 50
    /\ a.xfmt = "thousands"

(* C6 as stated: every panel of every image written, by any of the three   *)
(* scripts, has the whole theme.                                           *)
C6_AsStated ==
    \A w \in files : \A a \in DOMAIN w.image.axes : Themed(w.image.axes[a])

(* C6 amended: every panel of every image plot_readme.main and             *)
(* plot_nrdp.main write has the whole theme at the time it is written.     *)
(* The panels of the images plot_results.main writes have low-alpha        *)
(* gridlines and thousands-separated x tick labels only: their background, *)
(* label, tick, spine and grid colours are the engine's defaults.          *)
C6_ThemePerScript ==
    \A w \in files : \A a \in DOMAIN w.image.axes :
        LET p == w.image.axes[a] IN
        IF script \in {"readme", "nrdp"} THEN Themed(p)
        ELSE /\ p.grid.on /\ p.grid.alpha < 50 /\ p.xfmt = "thousands"
             /\ p.face = DefaultAxes.face /\ p.label = DefaultAxes.label
             /\ p.tick = DefaultAxes.tick /\ p.spine = DefaultAxes.spine
             /\ p.titlecolor = DefaultAxes.titlecolor
             /\ p.grid.color = DefaultAxes.grid.color

\* plot_readme has written its three-panel image.
C6_Witness ==
    /\ script = "readme"
    /\ \E w \in files : Len(w.image.axes) = 3 /\ Themed(w.image.axes[3])

---------------------------------------------------------------------------
(* C7 as stated: in a run of any of the scripts, two lines drawn from the  *)
(* same dataset have the same colour and the same marker.                  *)
C7_AsStated ==
    \A l1, l2 \in AllLines : l1.d = l2.d => l1.color = l2.color /\ l1.fmt = l2.fmt

(* C7 amended: in a run of plot_readme.main or plot_results.main, two      *)
(* lines drawn from the same dataset have the same colour and the same     *)
(* marker, on every panel of every chart group.  In plot_nrdp.main the     *)
(* lines of its one dataset have the same marker, and their colour is      *)
(* chosen per chart group.                                                 *)
C7_StylePerRun ==
    \A l1, l2 \in AllLines :
        l1.d = l2.d =>
          /\ l1.fmt = l2.fmt
          /\ script \in {"readme", "results"} => l1.color = l2.color
          /\ script = "nrdp" => (l1.color = l2.color <=> l1.g = l2.g)

\* plot_readme has drawn the lines of its fourth chart group.
C7_Witness ==
    /\ script = "readme"
    /\ \E l1, l2 \in AllLines : l1.d = l2.d /\ l1.g = 1 /\ l2.g = 4 /\ l2.col = "lql_services_rps"

---------------------------------------------------------------------------
\* The console lines that report path p.
ReportsOf(p) ==
    LET a == "  Saved " \o p
        b == "Saved " \o p
    IN {k \in DOMAIN console : console[k] = a \/ console[k] = b}

(* C8: emit ordering.  A savefig call is reached with its output directory *)
(* made, and never raises; a path is reported at most once and only once   *)
(* its image is written; an image written and not yet reported is the one  *)
(* whose emit is under way, and a run that is over has reported every      *)
(* image it wrote.                                                         *)
C8_EmitOrdering ==
    /\ (pc <= Len(Prog) /\ Prog[pc].op \in SaveOps) => Prog[pc].dir \in dirs /\ ~Failed
    /\ \A g \in Groups :
          /\ Cardinality(ReportsOf(GroupPath(g))) <= 1
          /\ ReportsOf(GroupPath(g)) # {} => IsWritten(g)
          /\ (IsWritten(g) /\ ReportsOf(GroupPath(g)) = {}) =>
                Running /\ Prog[pc].g = g /\ Prog[pc].op \in {"close", "print"}

\* plot_results between its first savefig and the print after it.
C8_Witness ==
    /\ script = "results" /\ Running /\ Prog[pc].op = "print"
    /\ IsWritten(1) /\ ReportsOf(GroupPath(1)) = {}

---------------------------------------------------------------------------
(* C9: once a chart group's emit is over (its image written and reported)  *)
(* its figure is no longer open; at most one figure is open at any time    *)
(* and none when a run has completed.                                      *)
C9_FigureDiscarded ==
    /\ \A w \in files : ReportsOf(w.path) # {} => w.fig \notin Range(open)
    /\ Len(open) <= 1
    /\ Done => open = <<>>

---------------------------------------------------------------------------
(* C10: each emit writes its own group.  The figure saved to a group's     *)
(* path is the one created for that group, the image holds, panel by       *)
(* panel, exactly the lines of the group's plot calls, nothing is drawn on *)
(* it after the save, and a completed run has written one image per group, *)
(* at pairwise distinct paths.                                             *)
C10_OwnGroupOnly ==
    /\ \A g \in Groups : \A w \in files :
          w.path = GroupPath(g) =>
            /\ figs[w.fig].g = g
            /\ w.image = figs[w.fig] \/ (Running /\ Prog[pc].op \in {"close", "print"})
            /\ \A a \in DOMAIN w.image.axes :
                  LET calls == {i \in PlotCalls(g) : Prog[i].ax = a}
                      ls == w.image.axes[a].lines
                  IN /\ Len(ls) = Cardinality(calls) /\ calls # {}
                     /\ \A i \in calls : \E k \in DOMAIN ls :
                           /\ ls[k].g = g /\ ls[k].d = Prog[i].d /\ ls[k].col = Prog[i].col
                           /\ ls[k].label = Prog[i].label
                     /\ w.image.axes[a].title # ""
    /\ \A g1, g2 \in Groups : g1 # g2 => GroupPath(g1) # GroupPath(g2)
    /\ Done => Cardinality(files) = Cardinality(Groups)

\* plot_results has saved its second figure with the first still open.
C10_Witness ==
    /\ script = "results" /\ Len(open) = 2
    /\ IsWritten(1) /\ IsWritten(2)

=============================================================================
